---------------------------- MODULE Spec2Model ----------------------------
(* A model of src/FiberScheduler.py: the dict of FiberInfo objects, the    *)
(* loop threads started by Run/Resume (one step per access of RunFiberLoop *)
(* to state other threads share), the spin-wait of DeactivateFiber, and    *)
(* the other caller operations, which are single dictionary or attribute   *)
(* accesses and are taken as atomic. Spec lets callers, loop threads and   *)
(* the clock interleave freely; DrivenSpec is one caller that sets the     *)
(* tasks up and then one loop whose passes are driven one time after the   *)
(* other; LongCallSpec is the same with a clock that advances during the   *)
(* calls of the fibers.                                                    *)
EXTENDS Integers, Sequences, FiniteSets, TLC

(***************************************************************************)
(* Bounds of the model.                                                    *)
(***************************************************************************)
\* threads that Run/Resume may start in one behaviour
MaxThreads == 2
\* last reading of the clock
MaxTime == 1
\* RegisterFiber calls in one behaviour
MaxRegister == 2
\* the driven passes: the time of the last one, and the interval of the tasks
\* that have one
LastPassTime == 11
DrivenInterval == 5
\* RegisterFiber calls before the driven passes
DrivenRegister == 3
\* the passes with calls that take time: the last reading of the clock, and the
\* interval of the tasks that have one
LongCallTime == 4
LongCallInterval == 2

(***************************************************************************)
(* Inputs of the caller operations.                                        *)
(***************************************************************************)
\* fiber.__name__ of the functions a caller may pass
Names == {"f", "g"}
\* None is <<>>, a value v is <<v>>
None == <<>>
\* f takes no argument and g takes one: args is what the function needs
ArgsOf == [n \in Names |-> IF n = "f" THEN None ELSE <<1>>]
IntervalValues == {None, <<1>>}
\* intervals that are not positive: RegisterFiber takes any number
NonPositive == {-1, 0}
\* the intervals of the driven passes
DrivenIntervalValues == {None, <<DrivenInterval>>} \cup {<<v>> : v \in NonPositive}

Threads == 1..MaxThreads

VARIABLES
    fiber_list,               \* self.fiber_list: the FiberInfo objects, in insertion order
    fiber_last_trigger_time,  \* self.fiber_last_trigger_time: a dict name -> time
    is_running,               \* self.is_running
    now,                      \* what time.time() returns
    pc,                       \* per loop thread: the line of RunFiberLoop it is at
    it_used,                  \* per loop thread: len(dict) when its iterator was made
    it_pos,                   \* per loop thread: entries its iterator has passed
    detached,                 \* per loop thread: its fiber_info, once the dict holds another
    late,                     \* per loop thread: it passed line 41 after the last Stop
    dpc,                      \* the caller inside DeactivateFiber: the line it is at
    dname,                    \* the caller inside DeactivateFiber: fiber.__name__
    ret,                      \* how the last caller operation ended: "ok" or the exception
    lifecycle,                \* the last of Run (or Resume) and Stop that was called
    nreg,                     \* RegisterFiber calls so far
    calls,                    \* driven passes: per name, the calls begun in this pass
    trig,                     \* driven passes: per name, the times at which a call began
    driven                    \* driven passes: a pass has ended at the time now

vars == <<fiber_list, fiber_last_trigger_time, is_running, now, pc, it_used, it_pos,
          detached, late, dpc, dname, ret, lifecycle, nreg, calls, trig, driven>>

\* what a loop thread owns
loopvars == <<pc, it_used, it_pos, detached, late>>
\* the fields of the scheduler object
objvars == <<fiber_list, fiber_last_trigger_time, is_running>>
\* what the callers own
callervars == <<dpc, dname, ret, lifecycle, nreg>>
\* what an observer of the driven passes writes down; nothing reads it
obsvars == <<calls, trig, driven>>

(***************************************************************************)
(* The FiberInfo dataclass and the dict self.fiber_list. The field fiber   *)
(* is the function named fiber_name.                                       *)
(***************************************************************************)
\* a FiberInfo that is born running when it is born activated
FiberInfo_BornRunning(name, args, interval, activation_status) ==
    [fiber_name |-> name, args |-> args, interval |-> interval,
     activation_status |-> activation_status, running_status |-> activation_status]

FiberInfo(name, args, interval, activation_status) ==
    [fiber_name |-> name, args |-> args, interval |-> interval,
     activation_status |-> activation_status, running_status |-> FALSE]

\* no object
NoFiber == [fiber_name |-> "", args |-> None, interval |-> None,
            activation_status |-> FALSE, running_status |-> FALSE]

Keys == {fiber_list[i].fiber_name : i \in DOMAIN fiber_list}
\* where the dict keeps name n: a key keeps its place when its value is replaced
Index(n) == CHOOSE i \in DOMAIN fiber_list : fiber_list[i].fiber_name = n
\* self.fiber_list[name], for a name in the dict
Lookup(n) == fiber_list[Index(n)]

\* the lines of RunFiberLoop at which the local fiber_info is in use
InBody == {"L43", "L46", "L48", "L51", "L53", "L57"}

\* The object a thread's fiber_info names: the item its iterator gave last,
\* which is the dict's value at that place unless RegisterFiber has put another
\* object there since. A replaced object is reachable from the threads that
\* fetched it only, and they write its running_status and read the rest, so
\* each keeps it as a copy of its own.
fiber_info(t) ==
    IF detached[t] # NoFiber THEN detached[t] ELSE fiber_list[it_pos[t]]
fiber_name(t) == fiber_info(t).fiber_name

(***************************************************************************)
(* __init__                                                                *)
(***************************************************************************)
Init ==
    /\ fiber_list = <<>>
    /\ fiber_last_trigger_time = [n \in {} |-> 0]
    /\ is_running = FALSE
    /\ now = 0
    /\ pc = [t \in Threads |-> "idle"]
    /\ it_used = [t \in Threads |-> 0]
    /\ it_pos = [t \in Threads |-> 0]
    /\ detached = [t \in Threads |-> NoFiber]
    /\ late = [t \in Threads |-> FALSE]
    /\ dpc = "idle"
    /\ dname = ""
    /\ ret = "ok"
    /\ lifecycle = "none"
    /\ nreg = 0
    /\ calls = [n \in Names |-> 0]
    /\ trig = [n \in Names |-> {}]
    /\ driven = FALSE

(***************************************************************************)
(* Caller operations.                                                      *)
(***************************************************************************)
\* RegisterFiber that lets a name that is activated stay so when it is replaced
RegisterFiber_KeepsActivation(n, args, interval, activation_status) ==
    /\ nreg < MaxRegister
    /\ IF n \in Keys
       THEN /\ fiber_list' = [fiber_list EXCEPT ![Index(n)] =
                                 FiberInfo(n, args, interval,
                                           activation_status \/ Lookup(n).activation_status)]
            /\ detached' = [t \in Threads |->
                               IF /\ pc[t] \in InBody
                                  /\ it_pos[t] = Index(n)
                                  /\ detached[t] = NoFiber
                               THEN Lookup(n) ELSE detached[t]]
       ELSE /\ fiber_list' = Append(fiber_list,
                                    FiberInfo(n, args, interval, activation_status))
            /\ UNCHANGED detached
    /\ nreg' = nreg + 1
    /\ ret' = "ok"
    /\ UNCHANGED <<obsvars, fiber_last_trigger_time, is_running, now, pc, it_used,
                   it_pos, late, dpc, dname, lifecycle>>

\* RegisterFiber that puts the new object at the end of the dict, also when the
\* name is in it
RegisterFiberTo_MovesToEnd(limit, n, args, interval, activation_status) ==
    /\ nreg < limit
    /\ fiber_list' = Append(SelectSeq(fiber_list, LAMBDA x : x.fiber_name # n),
                            FiberInfo(n, args, interval, activation_status))
    /\ nreg' = nreg + 1
    /\ ret' = "ok"
    /\ UNCHANGED <<obsvars, fiber_last_trigger_time, is_running, now, loopvars, dpc,
                   dname, lifecycle>>

\* RegisterFiber that forgets the last trigger time of the name
RegisterFiberTo_Forgets(limit, n, args, interval, activation_status) ==
    /\ nreg < limit
    /\ IF n \in Keys
       THEN /\ fiber_list' = [fiber_list EXCEPT ![Index(n)] =
                                 FiberInfo(n, args, interval, activation_status)]
            /\ detached' = [t \in Threads |->
                               IF /\ pc[t] \in InBody
                                  /\ it_pos[t] = Index(n)
                                  /\ detached[t] = NoFiber
                               THEN Lookup(n) ELSE detached[t]]
       ELSE /\ fiber_list' = Append(fiber_list,
                                    FiberInfo(n, args, interval, activation_status))
            /\ UNCHANGED detached
    /\ fiber_last_trigger_time' =
          [m \in DOMAIN fiber_last_trigger_time \ {n} |-> fiber_last_trigger_time[m]]
    /\ nreg' = nreg + 1
    /\ ret' = "ok"
    /\ UNCHANGED <<obsvars, is_running, now, pc, it_used, it_pos, late, dpc, dname,
                   lifecycle>>

\* RegisterFiber: a new FiberInfo object goes under fiber.__name__; a name that
\* is in the dict keeps its place, a new name goes to the end. The object the
\* dict held under that name lives on in the threads whose fiber_info it is.
\* The calls of one behaviour are limit at most
RegisterFiberTo(limit, n, args, interval, activation_status) ==
    /\ nreg < limit
    /\ IF n \in Keys
       THEN /\ fiber_list' = [fiber_list EXCEPT ![Index(n)] =
                                 FiberInfo(n, args, interval, activation_status)]
            /\ detached' = [t \in Threads |->
                               IF /\ pc[t] \in InBody
                                  /\ it_pos[t] = Index(n)
                                  /\ detached[t] = NoFiber
                               THEN Lookup(n) ELSE detached[t]]
       ELSE /\ fiber_list' = Append(fiber_list,
                                    FiberInfo(n, args, interval, activation_status))
            /\ UNCHANGED detached
    /\ nreg' = nreg + 1
    /\ ret' = "ok"
    /\ UNCHANGED <<obsvars, fiber_last_trigger_time, is_running, now, pc, it_used, it_pos,
                   late, dpc, dname, lifecycle>>

RegisterFiber(n, args, interval, activation_status) ==
    RegisterFiberTo(MaxRegister, n, args, interval, activation_status)

\* ActivateFiber that passes over a missing name in silence
ActivateFiber_Silent(n) ==
    /\ fiber_list' = IF n \in Keys
                     THEN [fiber_list EXCEPT ![Index(n)].activation_status = TRUE]
                     ELSE fiber_list
    /\ ret' = "ok"
    /\ UNCHANGED <<obsvars, fiber_last_trigger_time, is_running, now, loopvars, dpc, dname,
                   lifecycle, nreg>>

\* ActivateFiber that flips activation_status
ActivateFiber_Toggle(n) ==
    /\ IF n \in Keys
       THEN /\ fiber_list' = [fiber_list EXCEPT ![Index(n)].activation_status =
                                 ~Lookup(n).activation_status]
            /\ ret' = "ok"
       ELSE /\ ret' = "KeyError"
            /\ UNCHANGED fiber_list
    /\ UNCHANGED <<obsvars, fiber_last_trigger_time, is_running, now, loopvars, dpc,
                   dname, lifecycle, nreg>>

\* ActivateFiber: self.fiber_list[name] raises KeyError for a missing name
ActivateFiber(n) ==
    /\ IF n \in Keys
       THEN /\ fiber_list' = [fiber_list EXCEPT ![Index(n)].activation_status = TRUE]
            /\ ret' = "ok"
       ELSE /\ ret' = "KeyError"
            /\ UNCHANGED fiber_list
    /\ UNCHANGED <<obsvars, fiber_last_trigger_time, is_running, now, loopvars, dpc, dname,
                   lifecycle, nreg>>

\* what IsFiberRunning returns for a name in the dict
IsFiberRunningValue(n) == Lookup(n).running_status

\* IsFiberRunning: the running_status of the object the dict holds now; the
\* caller gets IsFiberRunningValue(n), or KeyError for a missing name
IsFiberRunning(n) ==
    /\ ret' = IF n \notin Keys THEN "KeyError" ELSE "ok"
    /\ UNCHANGED <<obsvars, objvars, now, loopvars, dpc, dname, lifecycle, nreg>>

\* DeactivateFiber, the call and the first test of line 29
DeactivateFiber(n) ==
    /\ dpc = "idle"
    /\ IF n \notin Keys
       THEN /\ ret' = "KeyError"
            /\ UNCHANGED <<dpc, dname>>
       ELSE /\ dname' = n
            /\ dpc' = IF IsFiberRunningValue(n) THEN "L29" ELSE "L31"
            /\ UNCHANGED ret
    /\ UNCHANGED <<obsvars, objvars, now, loopvars, lifecycle, nreg>>

\* DeactivateFiber, line 29 again: while(self.IsFiberRunning(fiber)): pass
DeactivateSpin ==
    /\ dpc = "L29"
    /\ dpc' = IF IsFiberRunningValue(dname) THEN "L29" ELSE "L31"
    /\ UNCHANGED <<obsvars, objvars, now, loopvars, dname, ret, lifecycle, nreg>>

\* DeactivateFiber, line 31, and the return
DeactivateSet ==
    /\ dpc = "L31"
    /\ fiber_list' = [fiber_list EXCEPT ![Index(dname)].activation_status = FALSE]
    /\ dpc' = "idle"
    /\ dname' = ""
    /\ ret' = "ok"
    /\ UNCHANGED <<obsvars, fiber_last_trigger_time, is_running, now, loopvars, lifecycle,
                   nreg>>

\* Run, lines 62-64: a new thread with target RunFiberLoop, started at once
StartThread ==
    /\ \E t \in Threads :
          /\ pc[t] = "idle"
          /\ \A u \in Threads : pc[u] = "idle" => t <= u
          /\ pc' = [pc EXCEPT ![t] = "L38"]
    /\ late' = [t \in Threads |-> FALSE]
    /\ ret' = "ok"
    /\ UNCHANGED <<obsvars, objvars, now, it_used, it_pos, detached, dpc, dname, nreg>>

Run ==
    /\ StartThread
    /\ lifecycle' = "Run"

\* Resume calls Run, and is a Run to everything that follows
Resume ==
    /\ StartThread
    /\ lifecycle' = "Run"

Stop ==
    /\ is_running' = FALSE
    /\ lifecycle' = "Stop"
    /\ ret' = "ok"
    /\ UNCHANGED <<obsvars, fiber_list, fiber_last_trigger_time, now, loopvars, dpc, dname,
                   nreg>>

\* the clock the loop reads advances, up to the time limit
TickTo(limit) ==
    /\ now < limit
    /\ now' = now + 1
    /\ UNCHANGED <<objvars, loopvars, callervars>>

Tick ==
    /\ TickTo(MaxTime)
    /\ UNCHANGED obsvars

(***************************************************************************)
(* RunFiberLoop, one step per access to state that other threads share.    *)
(***************************************************************************)
\* fiber_info.running_status = v, on the object thread t holds
SetRunning(t, v) ==
    IF detached[t] # NoFiber
    THEN /\ detached' = [detached EXCEPT ![t].running_status = v]
         /\ UNCHANGED fiber_list
    ELSE /\ fiber_list' = [fiber_list EXCEPT ![it_pos[t]].running_status = v]
         /\ UNCHANGED detached

\* self.fiber_last_trigger_time[name] = time.time()
Stamped(name) ==
    [n \in DOMAIN fiber_last_trigger_time \cup {name} |->
        IF n = name THEN now ELSE fiber_last_trigger_time[n]]

\* line 38: self.is_running = True
L38(t) ==
    /\ pc[t] = "L38"
    /\ is_running' = TRUE
    /\ pc' = [pc EXCEPT ![t] = "L39"]
    /\ UNCHANGED <<obsvars, fiber_list, fiber_last_trigger_time, now, it_used, it_pos,
                   detached, late, callervars>>

\* line 39: while(self.is_running), and the iterator of line 40 when it holds;
\* otherwise RunFiberLoop returns
L39Step(t) ==
    /\ pc[t] = "L39"
    /\ IF is_running
       THEN /\ pc' = [pc EXCEPT ![t] = "L40"]
            /\ it_used' = [it_used EXCEPT ![t] = Len(fiber_list)]
       ELSE /\ pc' = [pc EXCEPT ![t] = "done"]
            /\ UNCHANGED it_used
    /\ UNCHANGED <<objvars, now, it_pos, detached, late, callervars>>

L39(t) ==
    /\ L39Step(t)
    /\ UNCHANGED obsvars

\* lines 40-42: the next item of self.fiber_list.items(), and the test of
\* self.is_running that follows it. A dict whose size changed since the iterator
\* was made raises RuntimeError, which nothing catches: the thread ends
L40Step(t) ==
    /\ pc[t] = "L40"
    /\ IF Len(fiber_list) # it_used[t]
       THEN /\ pc' = [pc EXCEPT ![t] = "crashed"]
            /\ it_used' = [it_used EXCEPT ![t] = 0]
            /\ it_pos' = [it_pos EXCEPT ![t] = 0]
       ELSE IF it_pos[t] >= Len(fiber_list) \/ ~is_running
       THEN /\ pc' = [pc EXCEPT ![t] = "L39"]
            /\ it_used' = [it_used EXCEPT ![t] = 0]
            /\ it_pos' = [it_pos EXCEPT ![t] = 0]
       ELSE /\ pc' = [pc EXCEPT ![t] = "L43"]
            /\ it_pos' = [it_pos EXCEPT ![t] = it_pos[t] + 1]
            /\ UNCHANGED it_used
    /\ late' = [late EXCEPT ![t] = pc'[t] = "L43" /\ lifecycle = "Stop"]
    /\ UNCHANGED <<objvars, now, detached, callervars>>

L40(t) ==
    /\ L40Step(t)
    /\ UNCHANGED obsvars

\* lines 43-45 without the test of line 43: activated or not, the fiber goes on
L43_NoSkip(t) ==
    /\ pc[t] = "L43"
    /\ pc' = [pc EXCEPT ![t] =
                  IF fiber_info(t).interval # None THEN "L46" ELSE "L51"]
    /\ UNCHANGED <<obsvars, objvars, now, it_used, it_pos, detached, late,
                   callervars>>

\* lines 43-45: a fiber that is not activated is passed over; otherwise the
\* test of fiber_info.interval, which no one writes after __init__
L43(t) ==
    /\ pc[t] = "L43"
    /\ IF ~fiber_info(t).activation_status
       THEN /\ pc' = [pc EXCEPT ![t] = "L40"]
            /\ detached' = [detached EXCEPT ![t] = NoFiber]
            /\ late' = [late EXCEPT ![t] = FALSE]
       ELSE /\ pc' = [pc EXCEPT ![t] =
                         IF fiber_info(t).interval # None THEN "L46" ELSE "L51"]
            /\ UNCHANGED <<detached, late>>
    /\ UNCHANGED <<obsvars, objvars, now, it_used, it_pos, callervars>>

\* lines 46-47: the first sight of the name stores the time
L46(t) ==
    /\ pc[t] = "L46"
    /\ fiber_last_trigger_time' =
          IF fiber_name(t) \notin DOMAIN fiber_last_trigger_time
          THEN Stamped(fiber_name(t))
          ELSE fiber_last_trigger_time
    /\ pc' = [pc EXCEPT ![t] = "L48"]
    /\ UNCHANGED <<obsvars, fiber_list, is_running, now, it_used, it_pos, detached, late,
                   callervars>>

\* lines 48-49 without the test: the fiber is taken as due
L48_AlwaysDue(t) ==
    /\ pc[t] = "L48"
    /\ pc' = [pc EXCEPT ![t] = "L51"]
    /\ UNCHANGED <<obsvars, objvars, now, it_used, it_pos, detached, late,
                   callervars>>

\* lines 48-49 with <= for <: a fiber is passed over also when the time since
\* its last trigger is just the interval
L48_SkipsWhenEqual(t) ==
    /\ pc[t] = "L48"
    /\ IF now - fiber_last_trigger_time[fiber_name(t)] <= fiber_info(t).interval[1]
       THEN /\ pc' = [pc EXCEPT ![t] = "L40"]
            /\ detached' = [detached EXCEPT ![t] = NoFiber]
            /\ late' = [late EXCEPT ![t] = FALSE]
       ELSE /\ pc' = [pc EXCEPT ![t] = "L51"]
            /\ UNCHANGED <<detached, late>>
    /\ UNCHANGED <<obsvars, objvars, now, it_used, it_pos, callervars>>

\* lines 48-49: too early, continue
L48(t) ==
    /\ pc[t] = "L48"
    /\ IF now - fiber_last_trigger_time[fiber_name(t)] < fiber_info(t).interval[1]
       THEN /\ pc' = [pc EXCEPT ![t] = "L40"]
            /\ detached' = [detached EXCEPT ![t] = NoFiber]
            /\ late' = [late EXCEPT ![t] = FALSE]
       ELSE /\ pc' = [pc EXCEPT ![t] = "L51"]
            /\ UNCHANGED <<detached, late>>
    /\ UNCHANGED <<obsvars, objvars, now, it_used, it_pos, callervars>>

\* lines 51-52: the time of the trigger is stored, running_status is set, and
\* the call of lines 53-56 begins
L51Step(t) ==
    /\ pc[t] = "L51"
    /\ fiber_last_trigger_time' = Stamped(fiber_name(t))
    /\ SetRunning(t, TRUE)
    /\ pc' = [pc EXCEPT ![t] = "L53"]
    /\ late' = [late EXCEPT ![t] = FALSE]
    /\ UNCHANGED <<is_running, now, it_used, it_pos, callervars>>

L51(t) ==
    /\ L51Step(t)
    /\ UNCHANGED obsvars

\* lines 53-56: the fiber returns
FiberReturns(t) ==
    /\ pc[t] = "L53"
    /\ pc' = [pc EXCEPT ![t] = "L57"]
    /\ UNCHANGED <<obsvars, objvars, now, it_used, it_pos, detached, late, callervars>>

\* lines 53-56: the fiber raises; nothing catches it and the thread ends
FiberRaises(t) ==
    /\ pc[t] = "L53"
    /\ pc' = [pc EXCEPT ![t] = "failed"]
    /\ it_used' = [it_used EXCEPT ![t] = 0]
    /\ it_pos' = [it_pos EXCEPT ![t] = 0]
    /\ detached' = [detached EXCEPT ![t] = NoFiber]
    /\ UNCHANGED <<obsvars, objvars, now, late, callervars>>

\* lines 57-58 with the time of the trigger stored once more, when the call
\* has ended
L57_StampsAgain(t) ==
    /\ pc[t] = "L57"
    /\ pc' = [pc EXCEPT ![t] = "L40"]
    /\ fiber_last_trigger_time' = Stamped(fiber_name(t))
    /\ IF detached[t] # NoFiber
       THEN /\ detached' = [detached EXCEPT ![t] = NoFiber]
            /\ UNCHANGED fiber_list
       ELSE SetRunning(t, FALSE)
    /\ UNCHANGED <<obsvars, is_running, now, it_used, it_pos, late, callervars>>

\* lines 57-58: fiber_info.running_status = False, then time.sleep(0.10), which
\* touches nothing and after which the for statement goes on
L57(t) ==
    /\ pc[t] = "L57"
    /\ pc' = [pc EXCEPT ![t] = "L40"]
    /\ IF detached[t] # NoFiber
       THEN /\ detached' = [detached EXCEPT ![t] = NoFiber]
            /\ UNCHANGED fiber_list
       ELSE SetRunning(t, FALSE)
    /\ UNCHANGED <<obsvars, fiber_last_trigger_time, is_running, now, it_used, it_pos, late,
                   callervars>>

RunFiberLoop(t) ==
    \/ L38(t) \/ L39(t) \/ L40(t) \/ L43(t) \/ L46(t) \/ L48(t)
    \/ L51(t) \/ FiberReturns(t) \/ FiberRaises(t) \/ L57(t)

Caller ==
    \/ \E n \in Names, i \in IntervalValues, s \in BOOLEAN :
          RegisterFiber(n, ArgsOf[n], i, s)
    \/ \E n \in Names : ActivateFiber(n)
    \/ \E n \in Names : DeactivateFiber(n)
    \/ DeactivateSpin
    \/ DeactivateSet
    \/ \E n \in Names : IsFiberRunning(n)
    \/ Run
    \/ Resume
    \/ Stop

Next ==
    \/ Caller
    \/ \E t \in Threads : RunFiberLoop(t)
    \/ Tick

Spec == Init /\ [][Next]_vars

\* the threads are operating-system threads, each of which gets to run: the
\* loop threads, in which a fiber that is called ends (it returns or it
\* raises), and the thread of the caller inside DeactivateFiber
FairSpec ==
    /\ Spec
    /\ \A t \in Threads : WF_vars(RunFiberLoop(t))
    /\ WF_vars(DeactivateSpin)
    /\ WF_vars(DeactivateSet)

(***************************************************************************)
(* The driven passes. One caller registers the tasks, not activated (the   *)
(* default of RegisterFiber), activates and deactivates them, and calls    *)
(* Run once; from then on the loop thread alone acts. The clock stands     *)
(* still during a pass and advances by one between passes, once a pass has *)
(* ended at the time it shows, up to LastPassTime. An observer counts the  *)
(* calls of each fiber in the pass (calls) and notes their times (trig).   *)
(***************************************************************************)
\* Run has not been called
NoLoop == \A t \in Threads : pc[t] = "idle"
\* the caller is in no call
CallerFree == NoLoop /\ dpc = "idle"
\* a pass of thread t has ended and the next has not begun
PassEnded(t) == pc[t] = "L39" /\ driven

\* line 39, a pass begins: the observer starts to count
DrivenL39(t) ==
    /\ L39Step(t)
    /\ calls' = [n \in Names |-> 0]
    /\ UNCHANGED <<trig, driven>>

\* lines 40-42: the observer notes the end of the pass
DrivenL40(t) ==
    /\ L40Step(t)
    /\ driven' = (driven \/ pc'[t] = "L39")
    /\ UNCHANGED <<calls, trig>>

\* lines 51-52: the observer notes the call
DrivenL51(t) ==
    /\ L51Step(t)
    /\ calls' = [calls EXCEPT ![fiber_name(t)] = @ + 1]
    /\ trig' = [trig EXCEPT ![fiber_name(t)] = @ \cup {now}]
    /\ UNCHANGED driven

\* the clock advances between two passes
DrivenTick ==
    /\ \E t \in Threads : PassEnded(t)
    /\ TickTo(LastPassTime)
    /\ driven' = FALSE
    /\ UNCHANGED <<calls, trig>>

\* RunFiberLoop with the observer, and fibers that return
DrivenLoop(t) ==
    \/ L38(t) \/ DrivenL39(t) \/ DrivenL40(t) \/ L43(t) \/ L46(t) \/ L48(t)
    \/ DrivenL51(t) \/ FiberReturns(t) \/ L57(t)

DrivenNext ==
    \/ \E n \in Names, i \in DrivenIntervalValues :
          CallerFree /\ RegisterFiberTo(DrivenRegister, n, ArgsOf[n], i, FALSE)
    \/ \E n \in Names : CallerFree /\ ActivateFiber(n)
    \/ \E n \in Names : CallerFree /\ DeactivateFiber(n)
    \/ NoLoop /\ DeactivateSet
    \/ \E n \in Names : CallerFree /\ IsFiberRunning(n)
    \/ CallerFree /\ Run
    \/ \E t \in Threads : DrivenLoop(t)
    \/ DrivenTick

DrivenSpec == Init /\ [][DrivenNext]_vars

(***************************************************************************)
(* Passes with calls that take time. One caller registers the tasks and    *)
(* activates them, then calls Run; the clock advances while a fiber is     *)
(* being called (lines 53-56) and at no other time, up to LongCallTime.    *)
(***************************************************************************)
LongCallIntervalValues == {None, <<LongCallInterval>>}

FiberTakesTime(t) ==
    /\ pc[t] = "L53"
    /\ TickTo(LongCallTime)
    /\ UNCHANGED obsvars

LongCallNext ==
    \/ \E n \in Names, i \in LongCallIntervalValues :
          CallerFree /\ RegisterFiber(n, ArgsOf[n], i, FALSE)
    \/ \E n \in Names : CallerFree /\ ActivateFiber(n)
    \/ CallerFree /\ Run
    \/ \E t \in Threads : DrivenLoop(t)
    \/ \E t \in Threads : FiberTakesTime(t)

LongCallSpec == Init /\ [][LongCallNext]_vars

(***************************************************************************)
(* What the claims speak of.                                               *)
(***************************************************************************)
\* the loop threads that have been started and have not ended
LiveContexts == {t \in Threads : pc[t] \notin {"idle", "done", "failed", "crashed"}}
\* the threads inside a call of a fiber
InFlight == {t \in Threads : pc[t] = "L53"}
\* the threads inside a call of the fiber named n
InFlightOf(n) == {t \in InFlight : fiber_name(t) = n}
\* the thread started last
LastStarted == CHOOSE t \in Threads :
                  /\ pc[t] # "idle"
                  /\ \A u \in Threads : u > t => pc[u] = "idle"

(***************************************************************************)
(* The claims.                                                             *)
(***************************************************************************)

\* C1: when DeactivateFiber(name) returns (line 31 done), the running_status of
\* the task is false and no loop thread is inside a call of its fiber.
C1_DeactivateReturnsIdle ==
    [][\A n \in Names :
          (DeactivateSet /\ dname = n) =>
              /\ ~IsFiberRunningValue(n)'
              /\ \A t \in Threads : ~(pc'[t] = "L53" /\ fiber_name(t)' = n)]_vars

\* C2: in every reachable state at most one call of a fiber is in flight.
C2_SerialInvocations == Cardinality(InFlight) <= 1

\* C3: a call of a fiber never begins (lines 51-52) while the activation_status
\* of its FiberInfo is false.
C3_DisabledNeverInvoked ==
    [][\A t \in Threads : L51(t) => fiber_info(t).activation_status]_vars

\* C4: once Stop has returned, and until Run or Resume is called, a call of a
\* fiber begins only in a thread that had passed the test of line 41 before:
\* nothing is picked after Stop, the rest of the pass is skipped.
C4_NoSelectionAfterStop ==
    [][\A t \in Threads : (lifecycle = "Stop" /\ L51(t)) => ~late[t]]_vars

\* C5: a fiber registered with interval I is triggered (line 51) no sooner than
\* I after the trigger before it, on the clock the loop reads.
C5_MinimumSpacing ==
    [][\A t \in Threads :
          (L51(t) /\ fiber_info(t).interval # None) =>
              now - fiber_last_trigger_time[fiber_name(t)] >= fiber_info(t).interval[1]]_vars

\* C6: once a fiber has raised in the thread started last, no call of any fiber
\* begins until Run or Resume starts another thread.
C6_FailureHaltsLoop ==
    [][(\E t \in Threads : pc[t] # "idle") /\ pc[LastStarted] = "failed" =>
          \A u \in Threads : ~L51(u)]_vars

\* C7: ActivateFiber, DeactivateFiber and IsFiberRunning with a name that is
\* not in the dict end with KeyError at once (DeactivateFiber does not start to
\* wait) and change nothing else.
C7_UnknownNameFails ==
    [][\A n \in Names :
          (n \notin Keys /\ (ActivateFiber(n) \/ DeactivateFiber(n) \/ IsFiberRunning(n)))
              => /\ ret' = "KeyError"
                 /\ UNCHANGED <<objvars, now, loopvars, dpc, dname, lifecycle, nreg>>]_vars

\* C7, its case: a call was refused with KeyError while one name is registered,
\* a fiber is in flight and no DeactivateFiber is waiting.
C7_Witness ==
    /\ ret = "KeyError"
    /\ Len(fiber_list) = 1
    /\ InFlight # {}
    /\ dpc = "idle"

\* C8: Run or Resume while the loop is active (self.is_running) is refused as
\* an invalid configuration and starts no thread.
C8_NoSecondLoop ==
    [][(is_running /\ (Run \/ Resume)) =>
          /\ ret' = "InvalidConfiguration"
          /\ LiveContexts' = LiveContexts]_vars

\* C9: Resume after Stop leaves at most one live loop thread, also when the
\* thread that Stop was meant to end has not ended yet.
C9_ResumeAfterStopOneLoop ==
    [][(lifecycle = "Stop" /\ Resume) => Cardinality(LiveContexts') <= 1]_vars

\* C10: after Stop, unless Run or Resume is called, every loop thread ends.
C10_StopEndsTheLoop ==
    (lifecycle = "Stop") ~> (lifecycle # "Stop" \/ LiveContexts = {})

\* C11: RegisterFiber leaves the running_status of the name false, and the
\* running_status the dict holds for a name turns true only in lines 51-52 of a
\* loop thread that has picked that very object: no caller operation sets it.
C11_RunningFalseUntilSelected ==
    [][/\ nreg' # nreg =>
             \A n \in Names, i \in IntervalValues, s \in BOOLEAN :
                RegisterFiber(n, ArgsOf[n], i, s) => ~IsFiberRunningValue(n)'
       /\ fiber_list' # fiber_list =>
             \A n \in Names :
                (/\ n \in Keys'
                 /\ IsFiberRunningValue(n)'
                 /\ ~(n \in Keys /\ IsFiberRunningValue(n)))
                    => \E t \in Threads :
                          L51(t) /\ fiber_name(t) = n /\ detached[t] = NoFiber]_vars

\* C11, its case: the loop is inside the call of the first fiber, whose
\* running_status is true, and the second, registered too, still has it false.
C11_Witness ==
    /\ Len(fiber_list) = 2
    /\ fiber_list[1].running_status
    /\ ~fiber_list[2].running_status
    /\ \E t \in Threads : pc[t] = "L53" /\ it_pos[t] = 1 /\ detached[t] = NoFiber

\* C12: when a driven pass ends (no Stop, no fiber that raises, no caller at
\* work), every fiber without interval has been called once in the pass if it
\* is activated and not at all if it is not, and every running_status is false.
C12_OnePass ==
    \A t \in Threads :
       PassEnded(t) =>
          \A i \in DOMAIN fiber_list :
             /\ ~fiber_list[i].running_status
             /\ fiber_list[i].interval = None =>
                   calls[fiber_list[i].fiber_name] =
                      IF fiber_list[i].activation_status THEN 1 ELSE 0

\* C12, its case: a pass has ended over two fibers without interval, the first
\* activated and the second not.
C12_Witness ==
    /\ \E t \in Threads : PassEnded(t)
    /\ Len(fiber_list) = 2
    /\ \A i \in DOMAIN fiber_list : fiber_list[i].interval = None
    /\ fiber_list[1].activation_status
    /\ ~fiber_list[2].activation_status
    /\ calls[fiber_list[1].fiber_name] = 1

\* the times up to now at which a fiber of interval i, first seen at time 0 in
\* passes driven at every time, is due: i, 2i, ...
DueTimes(i) == {k * i : k \in 1..(now \div i)}

\* C13: in the driven passes an activated fiber with an interval I > 0 and no
\* last trigger time is called at the times I, 2I, ... and at no other: when
\* the pass at time now has ended its calls are those at the multiples of I up
\* to now and its last trigger time is the last of them, or the time 0 of the
\* pass that saw it first, which stored the time and did not call it. With
\* I = 5 and passes at 0, 1, ..., 11 the calls are those at 5 and at 10.
C13_IntervalSeeding ==
    \A i \in DOMAIN fiber_list :
       LET name == fiber_list[i].fiber_name
           interval == fiber_list[i].interval
       IN  (fiber_list[i].activation_status /\ interval # None /\ interval[1] > 0) =>
              /\ trig[name] \subseteq DueTimes(interval[1])
              /\ \A t \in Threads :
                    PassEnded(t) =>
                       /\ trig[name] = DueTimes(interval[1])
                       /\ name \in DOMAIN fiber_last_trigger_time
                       /\ fiber_last_trigger_time[name] =
                             (now \div interval[1]) * interval[1]

\* C13, its case: the pass at the last time has ended and a fiber of the
\* interval has been called twice, at the interval and at twice the interval.
C13_Witness ==
    /\ now = LastPassTime
    /\ \E t \in Threads : PassEnded(t)
    /\ \E i \in DOMAIN fiber_list :
          /\ fiber_list[i].interval = <<DrivenInterval>>
          /\ trig[fiber_list[i].fiber_name] = {DrivenInterval, 2 * DrivenInterval}

\* C14: after ActivateFiber(name) the activation_status of a registered name is
\* true, and a second ActivateFiber(name) in the state the first one left
\* changes nothing at all.
C14_ActivateIdempotent ==
    [][\A n \in Names :
          ActivateFiber(n) =>
             /\ n \in Keys => Lookup(n).activation_status'
             /\ (ENABLED (ActivateFiber(n) /\ UNCHANGED vars))']_vars

\* C14, its case: a fiber, registered not activated, has been activated.
C14_Witness ==
    /\ NoLoop
    /\ ret = "ok"
    /\ \E n \in Keys : Lookup(n).activation_status

\* C15: RegisterFiber(name, args, interval, activation_status) ends without
\* error; after it the dict holds one object for the name, with the args and
\* the interval given, the activation_status given (also false over a name
\* that was activated) and running_status false; the names are those before
\* and the name, and the objects of the other names are as before.
C15_RegisterReplaces ==
    [][nreg' # nreg =>
          \A n \in Names, i \in IntervalValues, s \in BOOLEAN :
             RegisterFiber(n, ArgsOf[n], i, s) =>
                /\ ret' = "ok"
                /\ Keys' = Keys \cup {n}
                /\ Len(fiber_list') = Cardinality(Keys')
                /\ Lookup(n)' = [fiber_name |-> n, args |-> ArgsOf[n], interval |-> i,
                                 activation_status |-> s, running_status |-> FALSE]
                /\ \A m \in Keys \ {n} : Lookup(m)' = Lookup(m)]_vars

\* C15, its case: a name was registered again while a loop thread held its
\* object: the thread holds the old object, activated, and the dict holds the
\* only object of the name, with another interval and not activated.
C15_Witness ==
    /\ Len(fiber_list) = 1
    /\ \E t \in Threads :
          /\ detached[t] # NoFiber
          /\ detached[t].activation_status
          /\ fiber_list[1].fiber_name = detached[t].fiber_name
          /\ fiber_list[1].interval # detached[t].interval
          /\ ~fiber_list[1].activation_status

\* C16: DeactivateFiber(name) clears activation_status before it waits: in
\* every state in which it waits at line 29 for running_status to turn false,
\* the activation_status of the name is false already (and so the loop begins
\* no call of that fiber during the wait).
C16_DisabledDuringWait ==
    dpc = "L29" => ~Lookup(dname).activation_status

\* C17: in every state, also after a fiber has raised and after Stop, a
\* running_status that is true belongs to an object that a live loop thread
\* holds between line 52 and line 57: the thread is in the call of its fiber.
C17_RunningOnlyDuringCall ==
    \A i \in DOMAIN fiber_list :
       fiber_list[i].running_status =>
          \E t \in Threads :
             /\ pc[t] \in {"L53", "L57"}
             /\ detached[t] = NoFiber
             /\ it_pos[t] = i

\* C18: in every state in which a loop thread is inside the call of the fiber
\* registered under a name, IsFiberRunning(name) returns true, also when the
\* name has been registered again during the call.
C18_IsRunningSeesTheCall ==
    \A t \in InFlight : IsFiberRunningValue(fiber_name(t))

\* C19: with every thread scheduled fairly and no fiber that raises, a
\* DeactivateFiber that has been called on a registered name returns.
C19_DeactivateReturns ==
    (dpc # "idle") ~> (dpc = "idle" \/ \E t \in Threads : pc[t] = "failed")

\* the loop is active and the name is registered, activated and without interval
Eligible(n) ==
    /\ is_running
    /\ n \in Keys
    /\ Lookup(n).activation_status
    /\ Lookup(n).interval = None

\* C20: with every thread scheduled fairly and no fiber that raises, a fiber
\* without interval that is registered and activated while the loop is active
\* is called, and called again after that, for as long as it stays so.
C20_NoStarvation ==
    \A n \in Names :
       Eligible(n) ~> \/ ~Eligible(n)
                      \/ InFlightOf(n) # {}
                      \/ \E t \in Threads : pc[t] = "failed"

\* C21: within a pass the fibers are taken in the order of their first
\* registration. RegisterFiber leaves every name that is in the dict at its
\* place, the name it replaces too, and a new name goes behind them; and when
\* the call of a fiber begins in a driven pass, no fiber registered after it
\* has been called in this pass and no call of a fiber registered before it is
\* still in progress.
C21_RegistrationOrder ==
    [][/\ nreg' # nreg =>
             /\ \A m \in Keys : m \in Keys' /\ Index(m)' = Index(m)
             /\ \A m \in Keys' \ Keys : Index(m)' = Len(fiber_list')
       /\ \A t \in Threads :
             DrivenL51(t) =>
                \A i \in DOMAIN fiber_list :
                   /\ i >= it_pos[t] => calls[fiber_list[i].fiber_name] = 0
                   /\ i < it_pos[t] => ~fiber_list[i].running_status]_vars

\* C21, its case: g was registered before f and one of the two was registered
\* again; a pass has ended in which g was called and, after it, f.
C21_Witness ==
    /\ nreg = DrivenRegister
    /\ Len(fiber_list) = 2
    /\ fiber_list[1].fiber_name = "g"
    /\ \E t \in Threads : PassEnded(t)
    /\ \A n \in Names : calls[n] = 1

\* what a fiber called in every pass shows when the pass at the time now has
\* ended: activated, one call in this pass and one at each time from 0, the
\* first pass that saw it, to now; not activated, no call
EveryPass(i) ==
    LET name == fiber_list[i].fiber_name
    IN  IF fiber_list[i].activation_status
        THEN calls[name] = 1 /\ trig[name] = 0..now
        ELSE calls[name] = 0 /\ trig[name] = {}

\* C22: an interval that is not positive is as no interval. In the driven
\* passes, where the passes and the readings of the clock are the same for all
\* fibers, a fiber with an interval <= 0 and a fiber without interval have both
\* been called in every pass in which they were activated, the first included,
\* and in no other, whenever a pass has ended.
C22_NonPositiveIsEveryPass ==
    \A t \in Threads :
       PassEnded(t) =>
          \A i \in DOMAIN fiber_list :
             (\/ fiber_list[i].interval = None
              \/ fiber_list[i].interval[1] \in NonPositive) => EveryPass(i)

\* C22, its case: the third pass has ended over a fiber of interval 0 and a
\* fiber of interval -1, both activated and both called at 0, 1 and 2.
C22_Witness ==
    /\ now = 2
    /\ \E t \in Threads : PassEnded(t)
    /\ Len(fiber_list) = 2
    /\ {fiber_list[i].interval : i \in DOMAIN fiber_list} = {<<0>>, <<-1>>}
    /\ \A i \in DOMAIN fiber_list :
          /\ fiber_list[i].activation_status
          /\ trig[fiber_list[i].fiber_name] = {0, 1, 2}

\* the time at which the last call of the fiber named n began
LastCall(n) == CHOOSE x \in trig[n] : \A y \in trig[n] : y <= x

\* C23: the time of the trigger is stored when the fiber is picked, before it
\* is called: lines 51-52 leave the last trigger time of the fiber at the time
\* of that moment and its running_status true; the call, however long, and its
\* end (line 57) leave the last trigger time as it is; and so the test of line
\* 48 lets a fiber through whenever its interval has passed since its last
\* call began, as it has at the pass after a call that lasted the interval.
C23_StampedAtSelection ==
    [][\A t \in Threads :
          /\ DrivenL51(t) =>
                /\ fiber_last_trigger_time'[fiber_name(t)] = now
                /\ fiber_info(t)'.running_status
          /\ (FiberTakesTime(t) \/ FiberReturns(t) \/ L57(t)) =>
                UNCHANGED fiber_last_trigger_time
          /\ (/\ L48(t)
              /\ trig[fiber_name(t)] # {}
              /\ now - LastCall(fiber_name(t)) >= fiber_info(t).interval[1])
                => pc'[t] = "L51"]_vars

\* C23, its case: f has no interval and g, behind it, has the interval. In one
\* pass f was called at the time 0 and g at the time of the interval; the next
\* call of f, which is in the pass after that one, began at twice that time:
\* the call of g lasted the interval, and the pass after it called g again.
C23_Witness ==
    /\ Len(fiber_list) = 2
    /\ fiber_list[1].interval = None
    /\ fiber_list[2].interval = <<LongCallInterval>>
    /\ trig[fiber_list[1].fiber_name] = {0, 2 * LongCallInterval}
    /\ trig[fiber_list[2].fiber_name] = {LongCallInterval, 2 * LongCallInterval}

\* C24: the registration of a new name during a pass, while a fiber is being
\* called, does not end the loop: a loop thread that is inside a call when the
\* dict has got a name more than it had when the pass began comes, with every
\* thread scheduled fairly, to the end of that pass at line 39 (unless the
\* fiber it is calling raises), from where the later passes go over the new
\* name too.
C24_RegisterKeepsLoopLive ==
    \A t \in Threads :
       (pc[t] = "L53" /\ Len(fiber_list) > it_used[t])
          ~> (pc[t] = "L39" \/ pc[t] = "failed")

\* C25: only the loop writes fiber_last_trigger_time. A step that changes it is
\* line 51 of a loop thread, or line 47 for a name that has no last trigger
\* time yet: RegisterFiber, of a new name or of one that is in the dict,
\* ActivateFiber, DeactivateFiber, IsFiberRunning, Run, Resume and Stop leave
\* it as it is, and the loop does not store the time of first sight again for
\* a name that has one.
C25_OnlyLoopWritesTriggerTimes ==
    [][fiber_last_trigger_time' # fiber_last_trigger_time =>
          \E t \in Threads :
             \/ L51(t)
             \/ L46(t) /\ fiber_name(t) \notin DOMAIN fiber_last_trigger_time]_vars

\* C25, its case: the only loop thread stored the time 0 for the only name in
\* an earlier pass; at the time 1 it has taken the name again and, before it
\* came to line 46, the name was registered again: the thread holds the old
\* object, and the last trigger time is still 0.
C25_Witness ==
    /\ now = 1
    /\ Len(fiber_list) = 1
    /\ \E t \in Threads :
          /\ pc[t] = "L43"
          /\ detached[t] # NoFiber
          /\ \A u \in Threads \ {t} : pc[u] = "idle"
          /\ fiber_name(t) \in DOMAIN fiber_last_trigger_time
          /\ fiber_last_trigger_time[fiber_name(t)] = 0

=============================================================================
